---- MODULE Spec2Model ----
(***************************************************************************)
(* Model of humanize_text (src/main.py): an ordered pipeline of regular-   *)
(* expression rewrite rules over one working text.  A text is a sequence   *)
(* of characters; a character is a one-character string, except the em     *)
(* dash, the en dash and the backtick, which are the tokens EmDash, EnDash *)
(* and Backtick (they cannot be written in a TLA+ string).  Every          *)
(* regular expression of the source is an operator that gives, for a text  *)
(* s and a position i, the end (exclusive) of the match Python's re finds  *)
(* starting at i, or 0 when the pattern does not match at i.               *)
(***************************************************************************)
EXTENDS Integers, Sequences, FiniteSets, TLC

\* ------------------------------------------------------------------ bounds
MaxLen == 3

\* -------------------------------------------------------------- characters
EmDash == "U+2014"
EnDash == "U+2013"
Backtick == "U+0060"
NL == "\n"

Lowers == <<"a","b","c","d","e","f","g","h","i","j","k","l","m",
            "n","o","p","q","r","s","t","u","v","w","x","y","z">>
Uppers == <<"A","B","C","D","E","F","G","H","I","J","K","L","M",
            "N","O","P","Q","R","S","T","U","V","W","X","Y","Z">>

Range(f) == {f[k] : k \in DOMAIN f}

\* \s
Space == {" ", NL, "\t", "\r", "\f"}
IsSpace(c) == c \in Space
\* \d
Digit == {"0","1","2","3","4","5","6","7","8","9"}
IsDigit(c) == c \in Digit
\* [a-z]
Lower == Range(Lowers)
\* [a-zA-Z]
IsLetter(c) == c \in Range(Lowers) \cup Range(Uppers)
\* a character class: [...] is Only(S), [^...] is Not(S)
Only(S) == [neg |-> FALSE, set |-> S]
Not(S) == [neg |-> TRUE, set |-> S]
InClass(cls, c) == (c \in cls.set) # cls.neg
\* case folding of (?i)
ToLower(c) ==
    IF c \in Range(Uppers) THEN Lowers[CHOOSE k \in 1..26 : Uppers[k] = c] ELSE c

\* ------------------------------------------------------------ text helpers
\* the character at position i, "" outside the text
At(s, i) == IF i \in 1..Len(s) THEN s[i] ELSE ""

\* s[a..b-1]
Slice(s, a, b) == IF b <= a THEN <<>> ELSE SubSeq(s, a, b - 1)

\* a greedy cls* or cls+ from i: the end (exclusive) of the longest run of
\* characters of the class cls
RunEnd(cls, s, i) ==
    CHOOSE j \in i..(Len(s) + 1) :
        /\ \A k \in i..(j - 1) : InClass(cls, s[k])
        /\ (j = Len(s) + 1 \/ ~InClass(cls, s[j]))

\* ^ under re.MULTILINE
LineStart(s, i) == i = 1 \/ At(s, i - 1) = NL

\* the literal lit at position i; end of the match or 0
Lit(lit, s, i) ==
    IF /\ i + Len(lit) - 1 <= Len(s)
       /\ \A k \in 1..Len(lit) : s[i + k - 1] = lit[k]
    THEN i + Len(lit) ELSE 0

\* the literal lit at position i under (?i)
LitI(lit, s, i) ==
    IF /\ i + Len(lit) - 1 <= Len(s)
       /\ \A k \in 1..Len(lit) : ToLower(s[i + k - 1]) = ToLower(lit[k])
    THEN i + Len(lit) ELSE 0

\* ------------------------------------------------------------ str methods
\* str.count(c) for a one-character c
StrCount(s, c) == Cardinality({k \in 1..Len(s) : s[k] = c})

\* str.replace(c, r) for a one-character c
RECURSIVE StrReplace(_, _, _)
StrReplace(s, c, r) ==
    IF s = <<>> THEN <<>>
    ELSE (IF Head(s) = c THEN r ELSE <<Head(s)>>) \o StrReplace(Tail(s), c, r)

\* str.strip()
Strip(s) ==
    IF \A k \in 1..Len(s) : IsSpace(s[k]) THEN <<>>
    ELSE LET a == CHOOSE k \in 1..Len(s) :
                     ~IsSpace(s[k]) /\ \A m \in 1..(k - 1) : IsSpace(s[m])
             b == CHOOSE k \in 1..Len(s) :
                     ~IsSpace(s[k]) /\ \A m \in (k + 1)..Len(s) : IsSpace(s[m])
         IN SubSeq(s, a, b)

\* ------------------------------------------------------------ rule patterns
\* \*\*([^*]+)\*\*   resp.  __([^_]+)__   with delimiter d
DelimPair(d, s, i) ==
    IF At(s, i) = d /\ At(s, i + 1) = d
    THEN LET j == RunEnd(Not({d}), s, i + 2) IN
         IF j > i + 2 /\ At(s, j) = d /\ At(s, j + 1) = d THEN j + 2 ELSE 0
    ELSE 0

bold_star(s, i) == DelimPair("*", s, i)
bold_under(s, i) == DelimPair("_", s, i)
\* \*\*([^*]+)\*\*|__([^_]+)__
bold_pattern(s, i) ==
    IF bold_star(s, i) > 0 THEN bold_star(s, i) ELSE bold_under(s, i)
\* r'\1' of the bold substitutions
BoldInner(s, i, e) == Slice(s, i + 2, e - 2)

\* DelimSingle without the lookbehind: d([^d\n]+)d(?![a-zA-Z])
DelimSingle_anywhere(d, s, i) ==
    IF At(s, i) = d
    THEN LET j == RunEnd(Not({d, NL}), s, i + 1) IN
         IF j > i + 1 /\ At(s, j) = d /\ ~IsLetter(At(s, j + 1))
         THEN j + 1 ELSE 0
    ELSE 0

\* (?<![a-zA-Z])d([^d\n]+)d(?![a-zA-Z])  with delimiter d
DelimSingle(d, s, i) ==
    IF At(s, i) = d /\ ~IsLetter(At(s, i - 1))
    THEN LET j == RunEnd(Not({d, NL}), s, i + 1) IN
         IF j > i + 1 /\ At(s, j) = d /\ ~IsLetter(At(s, j + 1))
         THEN j + 1 ELSE 0
    ELSE 0

italic_star(s, i) == DelimSingle("*", s, i)
italic_under(s, i) == DelimSingle("_", s, i)
italic_pattern(s, i) ==
    IF italic_star(s, i) > 0 THEN italic_star(s, i) ELSE italic_under(s, i)
\* r'\1' of the single-delimiter substitutions (italic, inline code)
Inner1(s, i, e) == Slice(s, i + 1, e - 1)

\* (?<!\-)\-\-(?!\-)
double_dash(s, i) ==
    IF /\ At(s, i) = "-" /\ At(s, i + 1) = "-"
       /\ At(s, i - 1) # "-" /\ At(s, i + 2) # "-"
    THEN i + 2 ELSE 0

\* ^#{1,6}\s+
header_re(s, i) ==
    IF LineStart(s, i) /\ At(s, i) = "#"
    THEN LET h == RunEnd(Only({"#"}), s, i)
             e == RunEnd(Only(Space), s, h)
         IN IF h - i <= 6 /\ e > h THEN e ELSE 0
    ELSE 0

\* ^[\s]*[-*+]\s+
bullet_re(s, i) ==
    IF LineStart(s, i)
    THEN LET j == RunEnd(Only(Space), s, i) IN
         IF At(s, j) \in {"-", "*", "+"}
         THEN LET e == RunEnd(Only(Space), s, j + 1) IN
              IF e > j + 1 THEN e ELSE 0
         ELSE 0
    ELSE 0

\* ^\s*\d+\.\s+
numbered_re(s, i) ==
    IF LineStart(s, i)
    THEN LET j == RunEnd(Only(Space), s, i)
             k == RunEnd(Only(Digit), s, j)
         IN IF k > j /\ At(s, k) = "."
            THEN LET e == RunEnd(Only(Space), s, k + 1) IN
                 IF e > k + 1 THEN e ELSE 0
            ELSE 0
    ELSE 0

Fence == <<Backtick, Backtick, Backtick>>
\* ```[\s\S]*?```
code_block_re(s, i) ==
    IF Lit(Fence, s, i) > 0 /\ \E j \in (i + 3)..Len(s) : Lit(Fence, s, j) > 0
    THEN 3 + CHOOSE j \in (i + 3)..Len(s) :
                 /\ Lit(Fence, s, j) > 0
                 /\ \A k \in (i + 3)..(j - 1) : Lit(Fence, s, k) = 0
    ELSE 0
\* ```[a-z]*\n?
fence_open_re(s, i) ==
    IF Lit(Fence, s, i) > 0
    THEN LET t == RunEnd(Only(Lower), s, i + 3) IN
         IF At(s, t) = NL THEN t + 1 ELSE t
    ELSE 0
\* ```
fence_re(s, i) == Lit(Fence, s, i)

\* `[^`]+`
inline_code_re(s, i) ==
    IF At(s, i) = Backtick
    THEN LET j == RunEnd(Not({Backtick}), s, i + 1) IN
         IF j > i + 1 /\ At(s, j) = Backtick THEN j + 1 ELSE 0
    ELSE 0

\* the phrases of ai_starters, in list order
LetMe == <<"L","e","t"," ","m","e"," ">>
Ill == <<"I","'","l","l"," ">>
Heres == <<"H","e","r","e","'","s"," ">>
HereIs == <<"H","e","r","e"," ","i","s"," ">>
Certainly == <<"C","e","r","t","a","i","n","l","y">>
OfCourse == <<"O","f"," ","c","o","u","r","s","e">>
Absolutely == <<"A","b","s","o","l","u","t","e","l","y">>
GreatQuestion == <<"G","r","e","a","t"," ","q","u","e","s","t","i","o","n">>
ThatsAGreat == <<"T","h","a","t","'","s"," ","a"," ","g","r","e","a","t"," ">>
IdBeHappyTo == <<"I","'","d"," ","b","e"," ","h","a","p","p","y"," ","t","o"," ">>
IWouldBeHappyTo == <<"I"," ","w","o","u","l","d"," ","b","e"," ",
                     "h","a","p","p","y"," ","t","o"," ">>

\* each entry: the phrase, whether [,!]?\s* follows it, and the replacement
ai_starters ==
    << [phrase |-> LetMe,           tail |-> FALSE, repl |-> <<>>],
       [phrase |-> Ill,             tail |-> FALSE, repl |-> <<>>],
       [phrase |-> Heres,           tail |-> FALSE, repl |-> <<>>],
       [phrase |-> HereIs,          tail |-> FALSE, repl |-> <<>>],
       [phrase |-> Certainly,       tail |-> TRUE,  repl |-> <<>>],
       [phrase |-> OfCourse,        tail |-> TRUE,  repl |-> <<>>],
       [phrase |-> Absolutely,      tail |-> TRUE,  repl |-> <<>>],
       [phrase |-> GreatQuestion,   tail |-> TRUE,  repl |-> <<>>],
       [phrase |-> ThatsAGreat,     tail |-> FALSE, repl |-> <<"A"," ">>],
       [phrase |-> IdBeHappyTo,     tail |-> FALSE, repl |-> <<>>],
       [phrase |-> IWouldBeHappyTo, tail |-> FALSE, repl |-> <<>>] >>

\* starter_re without the ^ anchor: a phrase is matched anywhere in a line
starter_re_unanchored(st, s, i) ==
    IF LitI(st.phrase, s, i) > 0
    THEN LET p == LitI(st.phrase, s, i) IN
         IF st.tail
         THEN RunEnd(Only(Space), s, IF At(s, p) \in {",", "!"} THEN p + 1 ELSE p)
         ELSE p
    ELSE 0

\* (?i)^phrase   resp.  (?i)^phrase[,!]?\s*   under re.MULTILINE
starter_re(st, s, i) ==
    IF LineStart(s, i) /\ LitI(st.phrase, s, i) > 0
    THEN LET p == LitI(st.phrase, s, i) IN
         IF st.tail
         THEN RunEnd(Only(Space), s, IF At(s, p) \in {",", "!"} THEN p + 1 ELSE p)
         ELSE p
    ELSE 0

\* !{2,}
exclaim_re(s, i) ==
    IF At(s, i) = "!" /\ At(s, i + 1) = "!"
    THEN RunEnd(Only({"!"}), s, i) ELSE 0

\* :\s*\n\s*[-*\d]  : the first \s* backtracks to the last newline of the run
colon_re(s, i) ==
    IF At(s, i) = ":"
    THEN LET j == RunEnd(Only(Space), s, i + 1) IN
         IF /\ \E k \in (i + 1)..(j - 1) : s[k] = NL
            /\ (At(s, j) \in {"-", "*"} \/ IsDigit(At(s, j)))
         THEN j + 1 ELSE 0
    ELSE 0
\* ColonRepl with r'.\1': the newline before the list line is not written back
ColonRepl_joined(s, i, e) ==
    LET nl == CHOOSE k \in (i + 1)..(e - 2) :
                  s[k] = NL /\ \A m \in (k + 1)..(e - 2) : s[m] # NL
    IN <<".">> \o Slice(s, nl + 1, e)

\* r'.\n\1' where \1 is (\s*[-*\d]), the text after the last newline of the run
ColonRepl(s, i, e) ==
    LET nl == CHOOSE k \in (i + 1)..(e - 2) :
                  s[k] = NL /\ \A m \in (k + 1)..(e - 2) : s[m] # NL
    IN <<".", NL>> \o Slice(s, nl + 1, e)

\* \n{3,}
newlines_re(s, i) ==
    LET j == RunEnd(Only({NL}), s, i) IN IF j - i >= 3 THEN j ELSE 0

\* ' {2,}'
spaces_re(s, i) ==
    LET j == RunEnd(Only({" "}), s, i) IN IF j - i >= 2 THEN j ELSE 0

\* \[([^\]]+)\]\([^)]+\)
link_re(s, i) ==
    IF At(s, i) = "["
    THEN LET j == RunEnd(Not({"]"}), s, i + 1) IN
         IF j > i + 1 /\ At(s, j) = "]" /\ At(s, j + 1) = "("
         THEN LET k == RunEnd(Not({")"}), s, j + 2) IN
              IF k > j + 2 /\ At(s, k) = ")" THEN k + 1 ELSE 0
         ELSE 0
    ELSE 0
\* r'\1' of the link substitution: the label
LinkLabel(s, i, e) == Slice(s, i + 1, RunEnd(Not({"]"}), s, i + 1))

\* ^>\s*
quote_re(s, i) ==
    IF LineStart(s, i) /\ At(s, i) = ">" THEN RunEnd(Only(Space), s, i + 1) ELSE 0

\* ^[-*_]{3,}\s*$  under re.MULTILINE: $ is the end of the text or the
\* position before a newline, so \s* backtracks to the last newline it took
hr_re(s, i) ==
    IF LineStart(s, i)
    THEN LET j == RunEnd(Only({"-", "*", "_"}), s, i)
             k == RunEnd(Only(Space), s, j)
         IN IF j - i < 3 THEN 0
            ELSE IF k = Len(s) + 1 THEN k
            ELSE IF \E p \in j..(k - 1) : s[p] = NL
            THEN CHOOSE p \in j..(k - 1) :
                     s[p] = NL /\ \A m \in (p + 1)..(k - 1) : s[m] # NL
            ELSE 0
    ELSE 0

\* ------------------------------------------------------- re.sub, re.findall
\* A pattern is named by a tuple: <<"starter", k>> is the k-th pattern of
\* ai_starters, <<name>> any other.  MatchEnd is the end (exclusive) of the
\* match of pattern p that starts at position i of s, or 0.
MatchEnd(p, s, i) ==
    CASE p[1] = "bold_pattern" -> bold_pattern(s, i)
      [] p[1] = "bold_star" -> bold_star(s, i)
      [] p[1] = "bold_under" -> bold_under(s, i)
      [] p[1] = "italic_pattern" -> italic_pattern(s, i)
      [] p[1] = "italic_star" -> italic_star(s, i)
      [] p[1] = "italic_under" -> italic_under(s, i)
      [] p[1] = "double_dash" -> double_dash(s, i)
      [] p[1] = "header" -> header_re(s, i)
      [] p[1] = "bullet" -> bullet_re(s, i)
      [] p[1] = "numbered" -> numbered_re(s, i)
      [] p[1] = "code_block" -> code_block_re(s, i)
      [] p[1] = "fence_open" -> fence_open_re(s, i)
      [] p[1] = "fence" -> fence_re(s, i)
      [] p[1] = "inline_code" -> inline_code_re(s, i)
      [] p[1] = "starter" -> starter_re(ai_starters[p[2]], s, i)
      [] p[1] = "exclaim" -> exclaim_re(s, i)
      [] p[1] = "colon" -> colon_re(s, i)
      [] p[1] = "newlines" -> newlines_re(s, i)
      [] p[1] = "spaces" -> spaces_re(s, i)
      [] p[1] = "link" -> link_re(s, i)
      [] p[1] = "quote" -> quote_re(s, i)
      [] p[1] = "hr" -> hr_re(s, i)

\* the replacement re.sub writes for the match s[i..e-1] of pattern p
Repl(p, s, i, e) ==
    CASE p[1] \in {"bold_star", "bold_under"} -> BoldInner(s, i, e)
      [] p[1] \in {"italic_star", "italic_under", "inline_code"} -> Inner1(s, i, e)
      [] p[1] = "double_dash" -> <<",", " ">>
      [] p[1] = "bullet" -> <<"-", " ">>
      [] p[1] = "starter" -> ai_starters[p[2]].repl
      [] p[1] = "exclaim" -> <<"!">>
      [] p[1] = "colon" -> ColonRepl(s, i, e)
      [] p[1] = "newlines" -> <<NL, NL>>
      [] p[1] = "spaces" -> <<" ">>
      [] p[1] = "link" -> LinkLabel(s, i, e)
      [] p[1] \in {"header", "numbered", "fence_open", "fence", "quote", "hr"}
           -> <<>>

\* re.sub(p, repl, s): the leftmost non-overlapping matches, scanned from i,
\* are replaced and the characters between them kept
RECURSIVE SubFrom(_, _, _)
SubFrom(p, s, i) ==
    IF i > Len(s) THEN <<>>
    ELSE LET e == MatchEnd(p, s, i) IN
         IF e > 0 THEN Repl(p, s, i, e) \o SubFrom(p, s, e)
         ELSE <<s[i]>> \o SubFrom(p, s, i + 1)

ReSub(p, s) == SubFrom(p, s, 1)

\* len(re.findall(p, s)): the number of leftmost non-overlapping matches
RECURSIVE FindFrom(_, _, _)
FindFrom(p, s, i) ==
    IF i > Len(s) THEN 0
    ELSE LET e == MatchEnd(p, s, i) IN
         IF e > 0 THEN 1 + FindFrom(p, s, e) ELSE FindFrom(p, s, i + 1)

ReCount(p, s) == FindFrom(p, s, 1)

\* the loop over ai_starters from entry k on: the text and the summed count
RECURSIVE StartersFrom(_, _, _)
StartersFrom(k, s, n) ==
    IF k > Len(ai_starters) THEN [text |-> s, count |-> n]
    ELSE StartersFrom(k + 1, ReSub(<<"starter", k>>, s),
                      n + ReCount(<<"starter", k>>, s))

\* ------------------------------------------------------------------ inputs
\* spec 8: a text without markers
SamplePlain ==
    <<"P","l","a","i","n"," ","s","e","n","t","e","n","c","e"," ","w","i",
      "t","h","o","u","t"," ","a","n","y"," ","m","a","r","k","e","r","s",
      ".">>
\* spec 8: bold and italic
SampleBoldItalic ==
    <<"*","*","b","o","l","d","*","*"," ","a","n","d"," ","_","i","t","a",
      "l","_"," ","t","e","x","t">>
\* spec 8: em dash and double hyphen
SampleDashes ==
    <<"L","i","n","e"," ","o","n","e",EmDash,"l","i","n","e"," ","t","w",
      "o"," ","-","-"," ","l","i","n","e"," ","t","h","r","e","e">>
\* spec 8: header and numbered list
SampleList ==
    <<"#"," ","T","i","t","l","e",NL,NL,"1","."," ","F","i","r","s","t",NL,
      "2","."," ","S","e","c","o","n","d",NL>>
\* spec 8: two opener phrases
SampleOpeners ==
    <<"C","e","r","t","a","i","n","l","y","!"," ","H","e","r","e","'","s",
      " ","t","h","e"," ","a","n","s","w","e","r",":"," ","i","t"," ","w",
      "o","r","k","s",".">>
\* spec 8: contractions
SampleContractions ==
    <<"I","t","'","s"," ","g","r","e","a","t",","," ","d","o","n","'","t",
      " ","w","o","r","r","y",".">>
\* a horizontal rule between blank lines
SampleRule ==
    <<"a",NL,NL,"-","-","-",NL,NL,"b">>
\* a link whose label is a space
SampleLink ==
    <<"a"," ","["," ","]","(","b",")"," ","c">>
\* underscore bold inside asterisk bold
SampleNested ==
    <<"*","*","a","_","_","b","_","_","c","*","*">>
\* a text without markers, with a double space and three blank lines
SampleWhitespace ==
    <<"O","n","e"," "," ","t","w","o",NL,NL,NL,NL,"t","h","r","e","e">>
\* a fenced block with text right after its closing marker
SampleFence ==
    <<Backtick,Backtick,Backtick,NL,"x",NL,Backtick,Backtick,Backtick,
      "d","o","n","e">>
\* an underscore pair that opens inside a word, an asterisk pair that closes
\* inside one
SampleMidWord ==
    <<"f","i","l","e","_","n","a","m","e","_"," ","a","n","d"," ","*","a",
      "r","g","s","*","k","w">>
\* an em dash between two letters
SampleEmDash ==
    <<"a",EmDash,"b">>
\* an en dash between two digits
SampleEnDash ==
    <<"1",EnDash,"2">>
\* a link after an exclamation mark, with an exclamation mark as its label
SampleImage ==
    <<"!","[","!","]","(","u",")">>
\* two colons before list lines, the first with a space, a blank line and an
\* indentation in between
SampleColon ==
    <<"D","o",":"," ",NL,NL," ","1","s","t",NL,"o","r",":",NL,"*","x">>
Samples ==
    {SamplePlain,
     SampleBoldItalic,
     SampleDashes,
     SampleList,
     SampleOpeners,
     SampleContractions,
     SampleRule,
     SampleLink,
     SampleNested,
     SampleWhitespace,
     SampleFence,
     SampleMidWord,
     SampleEmDash,
     SampleEnDash,
     SampleImage,
     SampleColon}

Alphabet == {"a", "*", "_", "-", ">", "!", ":", "1", ".", " ", NL, Backtick}

\* every text of at most MaxLen characters over Alphabet, and the samples
Inputs == UNION {[1..n -> Alphabet] : n \in 0..MaxLen} \cup Samples

\* ------------------------------------------------------------- rule steps
\* step 1: bold
BoldCount(s) == ReCount(<<"bold_pattern">>, s)
BoldRewrite(s) == ReSub(<<"bold_under">>, ReSub(<<"bold_star">>, s))
BoldReplaced(s) ==
    ReCount(<<"bold_star">>, s)
        + ReCount(<<"bold_under">>, ReSub(<<"bold_star">>, s))

\* step 2: italic
ItalicCount(s) == ReCount(<<"italic_pattern">>, s)
\* ItalicRewrite without the underscore pass
ItalicRewrite_star(s) == ReSub(<<"italic_star">>, s)
ItalicRewrite(s) == ReSub(<<"italic_under">>, ReSub(<<"italic_star">>, s))
ItalicReplaced(s) ==
    ReCount(<<"italic_star">>, s)
        + ReCount(<<"italic_under">>, ReSub(<<"italic_star">>, s))

\* step 3: dashes
DashCount(s) ==
    StrCount(s, EmDash) + StrCount(s, EnDash) + ReCount(<<"double_dash">>, s)
\* DashChars with the em dash rewritten to a hyphen like the en dash
DashChars_hyphen(s) ==
    StrReplace(StrReplace(s, EmDash, <<"-">>), EnDash, <<"-">>)
DashChars(s) == StrReplace(StrReplace(s, EmDash, <<",", " ">>), EnDash, <<"-">>)
\* DashRewrite with the en dash written as the em dash is
DashRewrite_comma(s) ==
    ReSub(<<"double_dash">>,
          StrReplace(StrReplace(s, EmDash, <<",", " ">>), EnDash,
                     <<",", " ">>))
DashRewrite(s) == ReSub(<<"double_dash">>, DashChars(s))
DashReplaced(s) ==
    StrCount(s, EmDash) + StrCount(s, EnDash)
        + ReCount(<<"double_dash">>, DashChars(s))

\* step 4: headers
HeaderCount(s) == ReCount(<<"header">>, s)
HeaderRewrite(s) == ReSub(<<"header">>, s)

\* step 5: bullets
BulletCount(s) == ReCount(<<"bullet">>, s)
BulletRewrite(s) == ReSub(<<"bullet">>, s)

\* step 6: numbered items
NumberedCount(s) == ReCount(<<"numbered">>, s)
NumberedRewrite(s) == ReSub(<<"numbered">>, s)

\* step 7: code blocks
CodeBlockCount(s) == ReCount(<<"code_block">>, s)
CodeBlockRewrite(s) == ReSub(<<"fence">>, ReSub(<<"fence_open">>, s))
CodeBlockReplaced(s) ==
    ReCount(<<"fence_open">>, s)
        + ReCount(<<"fence">>, ReSub(<<"fence_open">>, s))

\* step 8: inline code
InlineCodeCount(s) == ReCount(<<"inline_code">>, s)
InlineCodeRewrite(s) == ReSub(<<"inline_code">>, s)

\* step 9: AI sentence starters
StarterCount(s) == StartersFrom(1, s, 0).count
StarterRewrite(s) == StartersFrom(1, s, 0).text

\* step 10: exclamation marks
ExclaimCount(s) == ReCount(<<"exclaim">>, s)
ExclaimRewrite(s) == ReSub(<<"exclaim">>, s)

\* step 11: colon before a list
ColonCount(s) == ReCount(<<"colon">>, s)
ColonRewrite(s) == ReSub(<<"colon">>, s)

\* steps 12 and 13: whitespace cleanup
NewlinesRewrite(s) == ReSub(<<"newlines">>, s)
SpacesRewrite(s) == ReSub(<<"spaces">>, s)

\* step 14: links
LinkCount(s) == ReCount(<<"link">>, s)
LinkRewrite(s) == ReSub(<<"link">>, s)

\* step 15: blockquotes
QuoteCount(s) == ReCount(<<"quote">>, s)
QuoteRewrite(s) == ReSub(<<"quote">>, s)

\* step 16: horizontal rules
HrCount(s) == ReCount(<<"hr">>, s)
HrRewrite(s) == ReSub(<<"hr">>, s)

\* the rules that report, in the order of their steps
Rules == <<"bold", "italic", "dash", "header", "bullet", "numbered",
           "code_block", "inline_code", "starters", "exclaim", "colon",
           "link", "quote", "hr">>
RuleSet == Range(Rules)

\* the detector, the rewriter and the number of spans the rewriter replaces
Count(r, s) ==
    CASE r = "bold" -> BoldCount(s)
      [] r = "italic" -> ItalicCount(s)
      [] r = "dash" -> DashCount(s)
      [] r = "header" -> HeaderCount(s)
      [] r = "bullet" -> BulletCount(s)
      [] r = "numbered" -> NumberedCount(s)
      [] r = "code_block" -> CodeBlockCount(s)
      [] r = "inline_code" -> InlineCodeCount(s)
      [] r = "starters" -> StarterCount(s)
      [] r = "exclaim" -> ExclaimCount(s)
      [] r = "colon" -> ColonCount(s)
      [] r = "link" -> LinkCount(s)
      [] r = "quote" -> QuoteCount(s)
      [] r = "hr" -> HrCount(s)

Rewrite(r, s) ==
    CASE r = "bold" -> BoldRewrite(s)
      [] r = "italic" -> ItalicRewrite(s)
      [] r = "dash" -> DashRewrite(s)
      [] r = "header" -> HeaderRewrite(s)
      [] r = "bullet" -> BulletRewrite(s)
      [] r = "numbered" -> NumberedRewrite(s)
      [] r = "code_block" -> CodeBlockRewrite(s)
      [] r = "inline_code" -> InlineCodeRewrite(s)
      [] r = "starters" -> StarterRewrite(s)
      [] r = "exclaim" -> ExclaimRewrite(s)
      [] r = "colon" -> ColonRewrite(s)
      [] r = "link" -> LinkRewrite(s)
      [] r = "quote" -> QuoteRewrite(s)
      [] r = "hr" -> HrRewrite(s)

Replaced(r, s) ==
    CASE r = "bold" -> BoldReplaced(s)
      [] r = "italic" -> ItalicReplaced(s)
      [] r = "dash" -> DashReplaced(s)
      [] r = "code_block" -> CodeBlockReplaced(s)
      [] OTHER -> Count(r, s)

\* the statement a call runs after the step pc
NextPc(p) ==
    CASE p = "bold" -> "italic"
      [] p = "italic" -> "dash"
      [] p = "dash" -> "header"
      [] p = "header" -> "bullet"
      [] p = "bullet" -> "numbered"
      [] p = "numbered" -> "code_block"
      [] p = "code_block" -> "inline_code"
      [] p = "inline_code" -> "starters"
      [] p = "starters" -> "exclaim"
      [] p = "exclaim" -> "colon"
      [] p = "colon" -> "newlines"
      [] p = "newlines" -> "spaces"
      [] p = "spaces" -> "link"
      [] p = "link" -> "quote"
      [] p = "quote" -> "hr"
      [] p = "hr" -> "strip"
      [] p = "strip" -> "return"
      [] p = "return" -> "done"

\* ------------------------------------------------------------------- state
VARIABLES
    original,   \* the argument of the call
    text,       \* the working text
    changes,    \* the change records appended so far
    count,      \* per rule, the number of matches its detector found
    replaced,   \* per rule, the number of spans its substitutions replaced
    pc,         \* the next statement of the call
    result,     \* the returned record
    call,       \* 1 for a call on an input, 2 for a call on an earlier output,
                \* 3 for a call on the argument of the call before
    first,      \* the record returned by the call before
    other       \* the locals of a second call, which waits while this one runs

vars ==
    <<original, text, changes, count, replaced, pc, result, call, first,
      other>>

Zero == [r \in RuleSet |-> 0]

NoResult ==
    [original |-> <<>>, humanized |-> <<>>, changes |-> <<>>,
     original_length |-> 0, humanized_length |-> 0, reduction |-> 0]

\* a change record: the rule whose message it is, and the number in it
ChangeRecord(r, n) == [rule |-> r, n |-> n]

\* the locals of a call on x at its entry
Start(x) ==
    [original |-> x, text |-> x, changes |-> <<>>, pc |-> "bold",
     result |-> NoResult]

\* a call on x that waits at its entry while another call runs
Waiting(x) ==
    [original |-> x, text |-> x, changes |-> <<>>, count |-> Zero,
     replaced |-> Zero, pc |-> "bold", result |-> NoResult]

\* no second call
NoCall ==
    [original |-> <<>>, text |-> <<>>, changes |-> <<>>, count |-> Zero,
     replaced |-> Zero, pc |-> "done", result |-> NoResult]

\* entry of humanize_text(x)
InitWith(x) ==
    /\ original = x
    /\ text = x
    /\ changes = <<>>
    /\ count = Zero
    /\ replaced = Zero
    /\ pc = "bold"
    /\ result = NoResult
    /\ call = 1
    /\ first = NoResult
    /\ other = NoCall

Init == \E x \in Inputs : InitWith(x)

\* RuleStep without the test of the count: a record is appended every time
RuleStep_always(r) ==
    /\ pc = r
    /\ LET n == Count(r, text) IN
           /\ count' = [count EXCEPT ![r] = n]
           /\ changes' = Append(changes, ChangeRecord(r, n))
    /\ replaced' = [replaced EXCEPT ![r] = Replaced(r, text)]
    /\ text' = Rewrite(r, text)
    /\ pc' = NextPc(r)
    /\ UNCHANGED <<original, result, call, first, other>>

\* one reporting rule: detect on the working text, report, rewrite
RuleStep(r) ==
    /\ pc = r
    /\ LET n == Count(r, text) IN
           /\ count' = [count EXCEPT ![r] = n]
           /\ changes' = IF n > 0 THEN Append(changes, ChangeRecord(r, n))
                         ELSE changes
    /\ replaced' = [replaced EXCEPT ![r] = Replaced(r, text)]
    /\ text' = Rewrite(r, text)
    /\ pc' = NextPc(r)
    /\ UNCHANGED <<original, result, call, first, other>>

Bold == RuleStep("bold")
Italic == RuleStep("italic")
Dash == RuleStep("dash")
Header == RuleStep("header")
Bullet == RuleStep("bullet")
Numbered == RuleStep("numbered")
CodeBlock == RuleStep("code_block")
InlineCode == RuleStep("inline_code")
Starters == RuleStep("starters")
Exclaim == RuleStep("exclaim")
Colon == RuleStep("colon")
Link == RuleStep("link")
Quote == RuleStep("quote")
Hr == RuleStep("hr")

\* step 12
Newlines ==
    /\ pc = "newlines"
    /\ text' = NewlinesRewrite(text)
    /\ pc' = NextPc(pc)
    /\ UNCHANGED <<original, changes, count, replaced, result, call, first, other>>

\* step 13
Spaces ==
    /\ pc = "spaces"
    /\ text' = SpacesRewrite(text)
    /\ pc' = NextPc(pc)
    /\ UNCHANGED <<original, changes, count, replaced, result, call, first, other>>

\* Trim without the strip: the working text is returned as it is
Trim_skipped ==
    /\ pc = "strip"
    /\ text' = text
    /\ pc' = NextPc(pc)
    /\ UNCHANGED <<original, changes, count, replaced, result, call, first, other>>

\* final trim
Trim ==
    /\ pc = "strip"
    /\ text' = Strip(text)
    /\ pc' = NextPc(pc)
    /\ UNCHANGED <<original, changes, count, replaced, result, call, first, other>>

\* MakeResult with the lengths taken before the final trim is accounted for:
\* humanized_length is the length of the input
MakeResult_stale(o, t, ch) ==
    [original |-> o, humanized |-> t, changes |-> ch,
     original_length |-> Len(o), humanized_length |-> Len(o),
     reduction |-> Len(o) - Len(t)]

\* the returned dict
MakeResult(o, t, ch) ==
    [original |-> o, humanized |-> t, changes |-> ch,
     original_length |-> Len(o), humanized_length |-> Len(t),
     reduction |-> Len(o) - Len(t)]

\* Return without the return statement: the call ends without a record
Return_missing ==
    /\ pc = "return"
    /\ pc' = NextPc(pc)
    /\ UNCHANGED <<original, text, changes, count, replaced, result, call,
                   first, other>>

Return ==
    /\ pc = "return"
    /\ result' = MakeResult(original, text, changes)
    /\ pc' = NextPc(pc)
    /\ UNCHANGED <<original, text, changes, count, replaced, call, first, other>>

\* Enter with the changes list kept from the call before, as a list that
\* lives outside the call would be
Enter_shared(x) ==
    /\ original' = x
    /\ text' = x
    /\ changes' = changes
    /\ count' = Zero
    /\ replaced' = Zero
    /\ result' = NoResult
    /\ pc' = "bold"

\* entry of a later call humanize_text(x): fresh locals
Enter(x) ==
    /\ original' = x
    /\ text' = x
    /\ changes' = <<>>
    /\ count' = Zero
    /\ replaced' = Zero
    /\ result' = NoResult
    /\ pc' = "bold"

\* humanize_text(humanize_text(x)["humanized"]): a second call on the output
Rerun ==
    /\ pc = "done"
    /\ call = 1
    /\ first' = result
    /\ call' = 2
    /\ Enter(result.humanized)
    /\ UNCHANGED other

\* humanize_text(x) once more, after the call on x or the call on its output
Repeat ==
    /\ pc = "done"
    /\ call \in {1, 2}
    /\ first' = result
    /\ call' = 3
    /\ Enter(original)
    /\ UNCHANGED other

Next ==
    \/ Bold \/ Italic \/ Dash \/ Header \/ Bullet \/ Numbered \/ CodeBlock
    \/ InlineCode \/ Starters \/ Exclaim \/ Colon \/ Newlines \/ Spaces
    \/ Link \/ Quote \/ Hr \/ Trim \/ Return

\* one call of humanize_text on each input
Spec == Init /\ [][Next]_vars

\* a call on each input followed by a call on its output
SpecTwice == Init /\ [][Next \/ Rerun]_vars

\* the texts on which a call is repeated: those shorter than MaxLen, and the
\* samples
RepeatInputs ==
    UNION {[1..n -> Alphabet] : n \in 0..(MaxLen - 1)} \cup Samples

InitRepeat == \E x \in RepeatInputs : InitWith(x)

\* as SpecTwice on these texts, and the last call is made once more on the
\* same argument
SpecRepeat == InitRepeat /\ [][Next \/ Rerun \/ Repeat]_vars

\* one statement of a call, on its locals c
StepCall(c) ==
    CASE c.pc \in RuleSet ->
           LET n == Count(c.pc, c.text) IN
           [c EXCEPT !.changes = IF n > 0
                                 THEN Append(@, ChangeRecord(c.pc, n))
                                 ELSE @,
                     !.text = Rewrite(c.pc, @),
                     !.pc = NextPc(@)]
      [] c.pc = "newlines" ->
           [c EXCEPT !.text = NewlinesRewrite(@), !.pc = NextPc(@)]
      [] c.pc = "spaces" ->
           [c EXCEPT !.text = SpacesRewrite(@), !.pc = NextPc(@)]
      [] c.pc = "strip" ->
           [c EXCEPT !.text = Strip(@), !.pc = NextPc(@)]
      [] c.pc = "return" ->
           [c EXCEPT !.result = MakeResult(c.original, c.text, c.changes),
                     !.pc = NextPc(@)]

\* a call run from the locals c to its return, with nothing in between
RECURSIVE RunCall(_)
RunCall(c) == IF c.pc = "done" THEN c ELSE RunCall(StepCall(c))

\* humanize_text(x), the call made alone
Alone(x) == RunCall(Start(x)).result

\* the request texts of two calls made at the same time
PairInputs ==
    {SampleBoldItalic, SampleDashes, SampleList, SampleOpeners,
     SampleWhitespace, SampleImage}

\* two requests arrive together: a call on x runs, a call on y waits
InitPair ==
    \E x \in PairInputs, y \in PairInputs :
        /\ original = x
        /\ text = x
        /\ changes = <<>>
        /\ count = Zero
        /\ replaced = Zero
        /\ pc = "bold"
        /\ result = NoResult
        /\ call = 1
        /\ first = NoResult
        /\ other = Waiting(y)

\* Switch with one changes list for both calls: the call that resumes goes
\* on with the list of the call that is put aside
Switch_shared ==
    /\ other.pc # "done"
    /\ original' = other.original
    /\ text' = other.text
    /\ changes' = changes
    /\ count' = other.count
    /\ replaced' = other.replaced
    /\ pc' = other.pc
    /\ result' = other.result
    /\ other' = [original |-> original, text |-> text, changes |-> changes,
                 count |-> count, replaced |-> replaced, pc |-> pc,
                 result |-> result]
    /\ UNCHANGED <<call, first>>

\* between two statements the running call is put aside with its locals and
\* the waiting call resumes with its own
Switch ==
    /\ other.pc # "done"
    /\ original' = other.original
    /\ text' = other.text
    /\ changes' = other.changes
    /\ count' = other.count
    /\ replaced' = other.replaced
    /\ pc' = other.pc
    /\ result' = other.result
    /\ other' = [original |-> original, text |-> text, changes |-> changes,
                 count |-> count, replaced |-> replaced, pc |-> pc,
                 result |-> result]
    /\ UNCHANGED <<call, first>>

\* two calls, their statements interleaved in every order
SpecPair == InitPair /\ [][Next \/ Switch]_vars

\* ------------------------------------------------------------------ claims
\* the texts the claims name
DashesClaimed ==
    <<"L","i","n","e"," ","o","n","e",","," ","l","i","n","e"," ","t","w",
      "o",","," ","l","i","n","e"," ","t","h","r","e","e">>
DashesReturned ==
    <<"L","i","n","e"," ","o","n","e",","," ","l","i","n","e"," ","t","w",
      "o"," ",","," ","l","i","n","e"," ","t","h","r","e","e">>
ListClaimed ==
    <<"T","i","t","l","e",NL,NL,"F","i","r","s","t",NL,"S","e","c","o","n",
      "d">>
OpenersReturned ==
    <<"H","e","r","e","'","s"," ","t","h","e"," ","a","n","s","w","e","r",
      ":"," ","i","t"," ","w","o","r","k","s",".">>

Done == pc = "done"

\* s contains n consecutive characters c
HasRun(s, c, n) ==
    \E i \in 1..(Len(s) - n + 1) : \A k \in i..(i + n - 1) : s[k] = c

\* C1: running humanize_text on its own output returns that output as the
\* humanized text again.
C1_Idempotent == (Done /\ call = 2) => result.humanized = first.humanized

\* C2: the returned record carries the unmodified input and the final
\* working text, original_length and humanized_length are their lengths and
\* reduction is the difference of the two lengths.
C2_LengthsExact ==
    Done => /\ result.original = original
            /\ result.humanized = text
            /\ result.original_length = Len(original)
            /\ result.humanized_length = Len(result.humanized)
            /\ result.reduction =
                   result.original_length - result.humanized_length
C2_Witness ==
    Done /\ result.reduction > 0 /\ result.humanized_length > 0

\* C3: the humanized text contains no run of three or more newlines and no
\* run of two or more spaces.
C3_NoWhitespaceRuns ==
    Done => ~HasRun(result.humanized, NL, 3) /\ ~HasRun(result.humanized, " ", 2)

\* C4: for every rule, the number of matches its detector counted equals the
\* number of spans its rewrite replaced.
C4_DetectorMatchesRewriter == \A r \in RuleSet : count[r] = replaced[r]

\* C5: a rule step whose detector finds zero matches appends no change
\* record and leaves the working text as it was.
C5_ZeroMatchesNoChange ==
    [][\A r \in RuleSet :
           (pc = r /\ count'[r] = 0) => (text' = text /\ changes' = changes)]_vars

\* C6 as stated: when no detector matched, changes is empty and humanized is
\* the input with only leading and trailing whitespace removed.
C6_OnlyTrimmed ==
    (Done /\ count = Zero) =>
        (result.changes = <<>> /\ result.humanized = Strip(original))

\* C6 as amended: when no detector matched, changes is empty and humanized is
\* the input after the rewrites that run without reporting (the two
\* substitutions of the code-block step, which delete every triple-backtick
\* marker even when no complete block was counted, then the newline collapse
\* and the space collapse) and the final trim.
C6_CleanedAndTrimmed ==
    (Done /\ count = Zero) =>
        /\ result.changes = <<>>
        /\ result.humanized =
               Strip(SpacesRewrite(NewlinesRewrite(CodeBlockRewrite(original))))
C6_Witness ==
    /\ Done /\ count = Zero
    /\ result.humanized # <<>>
    /\ result.humanized # Strip(original)

\* the records the counts call for: one per rule whose count is at least 1,
\* in rule order
RECURSIVE RecordsFrom(_, _)
RecordsFrom(k, c) ==
    IF k > Len(Rules) THEN <<>>
    ELSE (IF c[Rules[k]] >= 1 THEN <<ChangeRecord(Rules[k], c[Rules[k]])>>
          ELSE <<>>) \o RecordsFrom(k + 1, c)

\* C7: changes holds exactly one record for each rule whose count is at
\* least 1 and none for the others, in rule application order.
C7_RecordsInRuleOrder ==
    /\ changes = RecordsFrom(1, count)
    /\ Done => result.changes = RecordsFrom(1, count)
C7_Witness ==
    Done /\ Len(result.changes) >= 2 /\ \E r \in RuleSet : count[r] >= 2

\* C8 as stated: the dash sample becomes "Line one, line two, line three"
\* with a single dash record counting 2.
C8_DashesAsClaimed ==
    (Done /\ original = SampleDashes) =>
        /\ result.humanized = DashesClaimed
        /\ result.changes = <<ChangeRecord("dash", 2)>>

\* C8 as amended: the dash sample becomes "Line one, line two , line three"
\* (the space before the double hyphen stays in front of the comma) with a
\* single dash record counting 2.
C8_DashesAsReturned ==
    (Done /\ original = SampleDashes) =>
        /\ result.humanized = DashesReturned
        /\ result.changes = <<ChangeRecord("dash", 2)>>
C8_Witness == Done /\ original = SampleDashes /\ count["dash"] = 2

\* C9: the list sample becomes "Title\n\nFirst\nSecond", the blank line
\* kept, with a header record counting 1 and a numbered record counting 2.
C9_ListKeepsBlankLine ==
    (Done /\ original = SampleList) =>
        /\ result.humanized = ListClaimed
        /\ result.changes =
               <<ChangeRecord("header", 1), ChangeRecord("numbered", 2)>>

\* C10 as stated: for the opener sample both "Certainly! " and "Here's " are
\* stripped, so the humanized text begins with neither phrase and the single
\* record counts 2.
C10_BothOpenersStripped ==
    (Done /\ original = SampleOpeners) =>
        /\ LitI(Certainly, result.humanized, 1) = 0
        /\ LitI(Heres, result.humanized, 1) = 0
        /\ result.changes = <<ChangeRecord("starters", 2)>>

\* C10 as amended: for the opener sample only "Certainly! " is stripped,
\* because the "Here's " pattern is tried before the "Certainly" pattern and
\* no pattern is tried twice; the humanized text is
\* "Here's the answer: it works." and the single record counts 1.
C10_OnlyCertainlyStripped ==
    (Done /\ original = SampleOpeners) =>
        /\ result.humanized = OpenersReturned
        /\ result.changes = <<ChangeRecord("starters", 1)>>
C10_Witness == Done /\ original = SampleOpeners /\ count["starters"] = 1

\* the start positions of the triple-backtick markers of s from i on, read
\* left to right without overlap
RECURSIVE Markers(_, _)
Markers(s, i) ==
    IF i > Len(s) THEN {}
    ELSE IF fence_re(s, i) > 0 THEN {i} \cup Markers(s, i + 3)
         ELSE Markers(s, i + 1)

\* u is the end of t
IsSuffix(u, t) ==
    Len(u) <= Len(t) /\ SubSeq(t, Len(t) - Len(u) + 1, Len(t)) = u

\* u occurs in t
IsInfix(u, t) ==
    \E k \in 0..(Len(t) - Len(u)) : SubSeq(t, k + 1, k + Len(u)) = u

\* C11: the code-block step counts one per complete block (two markers), and
\* on a working text with exactly one block, the body between the opening
\* marker (with its lower-case tag and newline) and the closing marker, and
\* the text after the closing marker, are both still in the text after the
\* step, the latter at its end.
C11_FenceKeepsBodyAndRest ==
    [][pc = "code_block" =>
         LET m == Markers(text, 1)
             open == CHOOSE i \in m : \A j \in m : i <= j
             close == CHOOSE i \in m : \A j \in m : j <= i
         IN  /\ count'["code_block"] = Cardinality(m) \div 2
             /\ Cardinality(m) = 2 =>
                  /\ IsInfix(Slice(text, fence_open_re(text, open), close),
                             text')
                  /\ IsSuffix(Slice(text, close + 3, Len(text) + 1), text')
      ]_vars

BoldItalicReturned ==
    <<"b","o","l","d"," ","a","n","d"," ","i","t","a","l"," ","t","e","x",
      "t">>

\* s without the characters of the set S
Without(s, S) == SelectSeq(s, LAMBDA c : c \notin S)

\* C12: "**bold** and _ital_ text" returns "bold and ital text" with the two
\* records bold 1 then italic 1.  On every input bold removal has run and
\* italic removal has not when the call stands before the italic step, and
\* the two steps replace each span by its inner text: they delete the four
\* delimiter characters of each bold span and the two of each italic span,
\* and nothing else.
C12_BoldThenItalic ==
    /\ (Done /\ original = SampleBoldItalic) =>
           /\ result.humanized = BoldItalicReturned
           /\ result.changes =
                  <<ChangeRecord("bold", 1), ChangeRecord("italic", 1)>>
    /\ pc = "italic" =>
           /\ replaced["italic"] = 0
           /\ Len(text) = Len(original) - 4 * replaced["bold"]
           /\ Without(text, {"*", "_"}) = Without(original, {"*", "_"})
    /\ pc = "dash" =>
           /\ Len(text) = Len(original) - 4 * replaced["bold"]
                              - 2 * replaced["italic"]
           /\ Without(text, {"*", "_"}) = Without(original, {"*", "_"})

C12_Witness ==
    /\ Done
    /\ original = SampleBoldItalic
    /\ replaced["bold"] = 1
    /\ replaced["italic"] = 1

\* every "*" and "_" of s comes right after a letter
DelimitersAfterLetters(s) ==
    \A k \in 1..Len(s) : s[k] \in {"*", "_"} => IsLetter(At(s, k - 1))

\* every "*" and "_" of s comes right before a letter
DelimitersBeforeLetters(s) ==
    \A k \in 1..Len(s) : s[k] \in {"*", "_"} => IsLetter(At(s, k + 1))

\* the matches of the single-delimiter pattern named p in s all start at a
\* "*" or "_" that no letter precedes and end at one that no letter follows
MatchesOutsideWords(p, s) ==
    \A i \in 1..Len(s) :
        LET e == MatchEnd(p, s, i) IN
        e > 0 => /\ s[i] \in {"*", "_"}
                 /\ s[e - 1] = s[i]
                 /\ ~IsLetter(At(s, i - 1))
                 /\ ~IsLetter(At(s, e))

\* C13: italic removal matches no span whose opening delimiter follows a
\* letter or whose closing delimiter precedes a letter, and only "*" and "_"
\* delimit: a working text in which every delimiter follows a letter, or
\* every delimiter precedes one, passes the italic step unchanged and
\* unreported, so does "file_name_ and *args*kw", and "It's great, don't
\* worry." is returned as it is with an empty changes list.
C13_ItalicNotInsideWords ==
    [][/\ pc = "italic" =>
             /\ MatchesOutsideWords(<<"italic_pattern">>, text)
             /\ MatchesOutsideWords(<<"italic_star">>, text)
             /\ MatchesOutsideWords(<<"italic_under">>,
                                    ReSub(<<"italic_star">>, text))
             /\ (DelimitersAfterLetters(text) \/ DelimitersBeforeLetters(text))
                    => text' = text /\ changes' = changes
       /\ (pc = "italic" /\ original = SampleMidWord) =>
             text' = text /\ changes' = changes
       /\ (pc = "return" /\ original = SampleContractions) =>
             /\ result'.humanized = SampleContractions
             /\ result'.changes = <<>>
      ]_vars

\* the italic step has passed over the spans inside words
C13_Witness ==
    /\ pc = "dash"
    /\ original = SampleMidWord
    /\ text = SampleMidWord
    /\ changes = <<>>

\* the statements of a call, in the order in which it executes them
Statements ==
    <<"bold", "italic", "dash", "header", "bullet", "numbered",
      "code_block", "inline_code", "starters", "exclaim", "colon",
      "newlines", "spaces", "link", "quote", "hr", "strip", "return",
      "done">>

StepIndex(p) == CHOOSE k \in 1..Len(Statements) : Statements[k] = p

\* s is a string: a sequence of characters
IsText(s) == DOMAIN s = 1..Len(s) /\ \A k \in 1..Len(s) : s[k] \in STRING

\* ch is a list of change records, each of a rule with a positive number
IsChanges(ch) ==
    /\ DOMAIN ch = 1..Len(ch)
    /\ \A k \in 1..Len(ch) :
           /\ DOMAIN ch[k] = {"rule", "n"}
           /\ ch[k].rule \in RuleSet
           /\ ch[k].n \in Nat \ {0}

\* r is the record of a call on x that worked the text down to t
WellFormed(r, x, t) ==
    /\ DOMAIN r = {"original", "humanized", "changes", "original_length",
                   "humanized_length", "reduction"}
    /\ r.original = x
    /\ r.humanized = t
    /\ IsText(r.humanized)
    /\ IsChanges(r.changes)
    /\ r.original_length \in Nat
    /\ r.humanized_length \in Nat
    /\ r.reduction \in Int

\* C14: on every input (unbalanced delimiters, no match at all, nothing but
\* matches of one rule) every statement of the call hands a string and a
\* list of change records to the statement after it, and the call ends by
\* returning a record with the six keys, filled with the input, the worked
\* text, the records and three integers.
C14_AlwaysReturnsRecord ==
    [][/\ StepIndex(pc') = StepIndex(pc) + 1
       /\ IsText(text')
       /\ IsChanges(changes')
       /\ pc' = "done" => WellFormed(result', original, text)
      ]_vars

\* a call on an unbalanced delimiter has returned
C14_Witness ==
    /\ Done
    /\ original = <<"*", "*", "a">>
    /\ WellFormed(result, original, original)

\* C15: a call on the argument of the call before it returns the record
\* that call returned, whether that call was the first one or came after
\* another call.
C15_SameInputSameResult == (Done /\ call = 3) => result = first

\* a repeated call that reported changes has returned
C15_Witness ==
    /\ Done
    /\ call = 3
    /\ original = SampleBoldItalic
    /\ Len(result.changes) = 2

\* C16: however the statements of two calls are interleaved, each call
\* returns the record that a call on its argument returns when it runs
\* alone.
C16_InterleavedAsAlone ==
    /\ Done => result = Alone(original)
    /\ other.pc = "done" => other.result = Alone(other.original)

\* one call has returned its two records while the other call, which has
\* reported one, waits between two rules
C16_Witness ==
    /\ Done
    /\ original = SampleBoldItalic
    /\ Len(result.changes) = 2
    /\ other.original = SampleDashes
    /\ other.pc = "exclaim"
    /\ Len(other.changes) = 1

\* C17: the call on the empty string returns the empty string as humanized,
\* an empty changes list and 0 for the two lengths and the reduction.
C17_EmptyInput ==
    (Done /\ original = <<>>) =>
        result = [original |-> <<>>, humanized |-> <<>>, changes |-> <<>>,
                  original_length |-> 0, humanized_length |-> 0,
                  reduction |-> 0]

\* the call on the empty string has gone through every statement
C17_Witness ==
    /\ Done
    /\ original = <<>>
    /\ call = 1
    /\ \A r \in RuleSet : count[r] = 0 /\ replaced[r] = 0

\* the first position after i of s that holds no whitespace
AfterSpace(s, i) ==
    CHOOSE j \in (i + 1)..(Len(s) + 1) :
        /\ ~IsSpace(At(s, j))
        /\ \A k \in (i + 1)..(j - 1) : IsSpace(s[k])

\* the colons of s followed by whitespace with a newline in it and then by
\* "-", "*" or a digit
ListColons(s) ==
    {i \in 1..Len(s) :
        /\ s[i] = ":"
        /\ \E k \in (i + 1)..(AfterSpace(s, i) - 1) : s[k] = NL
        /\ At(s, AfterSpace(s, i)) \in {"-", "*"} \cup Digit}

\* the last newline between the colon at i and the list marker
LastNewline(s, i) ==
    CHOOSE k \in (i + 1)..(AfterSpace(s, i) - 1) :
        s[k] = NL /\ \A m \in (k + 1)..(AfterSpace(s, i) - 1) : s[m] # NL

\* s with every such colon turned into a period and the whitespace between
\* it and the last newline before the marker left out
ColonsRepaired(s) ==
    LET kept == SelectSeq([k \in 1..Len(s) |-> k],
                          LAMBDA k : \A i \in ListColons(s) :
                                         ~(i < k /\ k < LastNewline(s, i)))
    IN [n \in 1..Len(kept) |->
           IF kept[n] \in ListColons(s) THEN "." ELSE s[kept[n]]]

\* C18: the colon step turns every colon that is followed by optional
\* whitespace, a newline and a line starting (after its indentation) with
\* "-", "*" or a digit into a period, keeps the newline before that line
\* and the line itself, drops only the whitespace between the colon and that
\* newline, and reports the number of colons it has turned.
C18_ColonBecomesPeriod ==
    [][pc = "colon" =>
         /\ text' = ColonsRepaired(text)
         /\ count'["colon"] = Cardinality(ListColons(text))
         /\ replaced'["colon"] = count'["colon"]
         /\ StrCount(text', ":") = StrCount(text, ":") - count'["colon"]
         /\ StrCount(text', NL) <= StrCount(text, NL)
         /\ \A i \in ListColons(text) :
                IsInfix(<<".">> \o Slice(text, LastNewline(text, i),
                                         AfterSpace(text, i) + 1), text')
      ]_vars

\* two colons before list lines have been turned into periods
C18_Witness ==
    /\ pc = "newlines"
    /\ original = SampleColon
    /\ text = <<"D","o",".",NL," ","1","s","t",NL,"o","r",".",NL,"*","x">>
    /\ count["colon"] = 2

\* C19: of all the statements only the dash step can lengthen the working
\* text, by at most one character per em dash in it (the colon step and the
\* bullet step among those that cannot), so the returned humanized_length is
\* at most original_length plus the number of em dashes of the input, and
\* the reduction of an input without an em dash is not negative.
C19_OnlyEmDashLengthens ==
    [][/\ pc \in {"colon", "bullet"} => Len(text') <= Len(text)
       /\ (pc \notin {"dash", "done"}) => Len(text') <= Len(text)
       /\ pc = "dash" => Len(text') <= Len(text) + StrCount(text, EmDash)
       /\ pc = "return" =>
            /\ result'.humanized_length
                   <= result'.original_length + StrCount(original, EmDash)
            /\ StrCount(original, EmDash) = 0 => result'.reduction >= 0
      ]_vars

\* the call on "a", em dash, "b" has returned a text one character longer
C19_Witness ==
    /\ Done
    /\ original = SampleEmDash
    /\ result.humanized_length = result.original_length + 1
    /\ result.reduction = -1

\* C20: the returned humanized text holds no two "!" in a row.
C20_NoExclaimRunReturned == Done => ~HasRun(result.humanized, "!", 2)
====
